---- MODULE Spec2Model ----
(***************************************************************************)
(* FOLKLORERUN: the progression engine (src/src/hooks/useGameEngine.js),   *)
(* the part of the presentation that calls it through delayed callbacks    *)
(* (GameplayScreen.handleChoice), the data loader (utils/dataLoader.js)    *)
(* and the token cards of the Inventory (components/Inventory.jsx).        *)
(*                                                                         *)
(* JavaScript arrays are 0-based, TLA+ sequences 1-based: levels[l] of the *)
(* source is levels[l + 1] here, choices[i] is choices[i + 1].             *)
(* null is <<>> for the selected creature (a sequence of at most one       *)
(* creature), "null" for the outcome and NoChoice for a choice index.      *)
(***************************************************************************)
EXTENDS Integers, Sequences, FiniteSets, TLC

VARIABLES
    \* ---- useGameEngine state (useGameEngine.js:21-44)
    gameState,          \* intro | select | characterReveal | story | level | levelTransition | end
    selectedCreature,   \* <<>> (null) or <<creature>>
    currentLevel,
    outcome,            \* "victory" | "defeat" | "null"
    consequenceText,
    transitionFrom,
    correctAnswers,
    animationState,
    storyBubbleIndex,
    mechanicState,      \* a record whose fields are the keys the object has
    \* ---- pending delayed callbacks
    choiceTimers,       \* the 2000 ms timers of makeChoice, oldest first; each holds the captured level
    commitTimers,       \* the 4200 ms timers of GameplayScreen.handleChoice, oldest first
    \* ---- GameplayScreen state
    selectedChoice,
    \* ---- App state fed by the loader
    gameData,           \* <<>> (null) or <<creature data>>
    uiConfig,           \* <<>> (null) or <<ui config>>
    isLoading,
    creatureLoad,       \* position and result of loadCreatureData
    uiLoad,             \* position and result of loadUIConfig
    \* ---- history: the choices accepted since the session began, per level
    choiceLog,
    \* ---- Inventory state (Inventory.jsx:22-31) and its pending 500 ms timers
    showHint,
    hintTimers,         \* oldest first; each holds the hintsRevealed its closure captured
    \* ---- history: the mismatching riddle answers submitted
    misses

engineVars == <<gameState, selectedCreature, currentLevel, outcome, consequenceText,
                transitionFrom, correctAnswers, animationState, storyBubbleIndex,
                mechanicState>>

loadVars == <<gameData, uiConfig, isLoading, creatureLoad, uiLoad>>

vars == <<gameState, selectedCreature, currentLevel, outcome, consequenceText,
          transitionFrom, correctAnswers, animationState, storyBubbleIndex,
          mechanicState, choiceTimers, commitTimers, selectedChoice,
          gameData, uiConfig, isLoading, creatureLoad, uiLoad, choiceLog,
          showHint, hintTimers, misses>>

inventoryVars == <<showHint, hintTimers, misses>>

\* The session state the specification speaks of.
sessionVars == <<gameState, selectedCreature, currentLevel, correctAnswers,
                 consequenceText, mechanicState, outcome>>

-----------------------------------------------------------------------------
\* Bounds of the model.

\* completeLevelTransition is not taken once the level index is MaxLevel
MaxLevel == 3
\* a correct choice is not taken once the correct-count is MaxCorrect
MaxCorrect == 3
\* pending 2000 ms timers
MaxChoiceTimers == 1
\* pending 4200 ms timers
MaxCommitTimers == 1

-----------------------------------------------------------------------------
\* Embedded content (src/src/fallbackData.js).

NoCreature == <<>>

NoChoice == -1

\* fallbackData.js: in every level choice 0 is the correct one, choice 1 is not.
FallbackLevel(id, l) ==
    [choices |-> << [isCorrect |-> TRUE,  consequence |-> id \o "/" \o ToString(l) \o "/0"],
                    [isCorrect |-> FALSE, consequence |-> id \o "/" \o ToString(l) \o "/1"] >>]

FallbackCreature(id, name, mechanic) ==
    [id |-> id, name |-> name, coreMechanic |-> mechanic,
     levels |-> << FallbackLevel(id, 0), FallbackLevel(id, 1), FallbackLevel(id, 2) >>]

fallbackCreatureData ==
    [creatures |-> << FallbackCreature("baba-yaga", "Baba Yaga", "riddle"),
                      FallbackCreature("banshee", "Banshee", "calmness"),
                      FallbackCreature("aswang", "Aswang", "deduction") >>]

-----------------------------------------------------------------------------
\* useGameEngine (src/src/hooks/useGameEngine.js).

\* useState initial value of mechanicState, and the object restartGame and goHome set
AllMechanicDefaults == [hintsRevealed |-> 0, calmnessLevel |-> 100, tokensCollected |-> <<>>]

InitialAnimationState ==
    [entranceComplete |-> FALSE, closeUpComplete |-> FALSE, storyComplete |-> FALSE]

\* Math.max(0, undefined - n) when the object has no calmnessLevel key
NaN == -1

\* { ...prev, ...updates }
Spread(prev, updates) ==
    [k \in (DOMAIN prev) \cup (DOMAIN updates) |->
        IF k \in DOMAIN updates THEN updates[k] ELSE prev[k]]

\* creatureData.creatures.find(c => c.id === creatureId): <<>> when there is none
FindCreature(data, creatureId) ==
    LET hits == {i \in 1..Len(data.creatures) : data.creatures[i].id = creatureId}
    IN  IF hits = {} THEN NoCreature
        ELSE << data.creatures[CHOOSE i \in hits : \A j \in hits : i <= j] >>

\* the mechanic state selectCreature sets for the creature's mechanic (lines 88-94)
MechanicDefault(creature, prev) ==
    CASE creature.coreMechanic = "riddle"    -> [hintsRevealed |-> 0]
      [] creature.coreMechanic = "calmness"  -> [calmnessLevel |-> 100]
      [] creature.coreMechanic = "deduction" -> [tokensCollected |-> <<>>]
      [] OTHER                               -> prev

\* selectedCreature.levels[currentLevel] || null, as a sequence of at most one level
LevelData(sc, level) ==
    IF sc = NoCreature THEN <<>>
    ELSE IF level + 1 \in DOMAIN sc[1].levels THEN << sc[1].levels[level + 1] >> ELSE <<>>

\* GameplayScreen is rendered (App.jsx, the level branch with level data)
GameplayMounted(gs, sc, level) ==
    gs = "level" /\ LevelData(sc, level) # <<>>

\* GameplayScreen's selectedChoice lives as long as the component stays mounted
UIFollows ==
    selectedChoice' = IF GameplayMounted(gameState', selectedCreature', currentLevel')
                      THEN selectedChoice ELSE NoChoice

\* Inventory's effect on [levelData] hides the hint when the level data changes
InventoryFollows ==
    /\ showHint' = IF LevelData(selectedCreature', currentLevel')
                       = LevelData(selectedCreature, currentLevel)
                    THEN showHint ELSE FALSE
    /\ UNCHANGED <<hintTimers, misses>>

\* selectCreature, restartGame and goHome begin a new session
FreshLog == [l \in 0..MaxLevel |-> "none"]

startGame ==
    /\ gameState' = "select"
    /\ UNCHANGED <<selectedCreature, currentLevel, outcome, consequenceText, transitionFrom,
                   correctAnswers, animationState, storyBubbleIndex, mechanicState>>
    /\ UNCHANGED <<choiceTimers, commitTimers, choiceLog>>
    /\ UNCHANGED loadVars
    /\ InventoryFollows
    /\ UIFollows

selectCreature(creatureId) ==
    /\ IF gameData = <<>> \/ FindCreature(gameData[1], creatureId) = NoCreature
       THEN UNCHANGED <<engineVars, choiceLog>>
       ELSE LET creature == FindCreature(gameData[1], creatureId)[1]
            IN  /\ selectedCreature' = << creature >>
                /\ currentLevel' = 0
                /\ outcome' = "null"
                /\ consequenceText' = ""
                /\ storyBubbleIndex' = 0
                /\ correctAnswers' = 0
                /\ animationState' = InitialAnimationState
                /\ mechanicState' = MechanicDefault(creature, mechanicState)
                /\ gameState' = "characterReveal"
                /\ choiceLog' = FreshLog
                /\ UNCHANGED transitionFrom
    /\ UNCHANGED <<choiceTimers, commitTimers>>
    /\ UNCHANGED loadVars
    /\ InventoryFollows
    /\ UIFollows

completeEntranceAnimation ==
    /\ animationState' = [animationState EXCEPT !.entranceComplete = TRUE]
    /\ UNCHANGED <<gameState, selectedCreature, currentLevel, outcome, consequenceText,
                   transitionFrom, correctAnswers, storyBubbleIndex, mechanicState>>
    /\ UNCHANGED <<choiceTimers, commitTimers, choiceLog>>
    /\ UNCHANGED loadVars
    /\ InventoryFollows
    /\ UIFollows

completeCloseUpAnimation ==
    /\ animationState' = [animationState EXCEPT !.closeUpComplete = TRUE]
    /\ gameState' = "story"
    /\ UNCHANGED <<selectedCreature, currentLevel, outcome, consequenceText,
                   transitionFrom, correctAnswers, storyBubbleIndex, mechanicState>>
    /\ UNCHANGED <<choiceTimers, commitTimers, choiceLog>>
    /\ UNCHANGED loadVars
    /\ InventoryFollows
    /\ UIFollows

\* Baba Yaga and Banshee have 4 bubbles, Aswang has 5 (line 133)
totalBubbles(creature) == IF creature.id = "aswang" THEN 5 ELSE 4

advanceStoryBubble ==
    /\ IF selectedCreature = NoCreature
       THEN UNCHANGED engineVars
       ELSE IF storyBubbleIndex < totalBubbles(selectedCreature[1]) - 1
            THEN /\ storyBubbleIndex' = storyBubbleIndex + 1
                 /\ UNCHANGED <<gameState, selectedCreature, currentLevel, outcome,
                                consequenceText, transitionFrom, correctAnswers,
                                animationState, mechanicState>>
            ELSE /\ animationState' = [animationState EXCEPT !.storyComplete = TRUE]
                 /\ gameState' = "level"
                 /\ UNCHANGED <<selectedCreature, currentLevel, outcome, consequenceText,
                                transitionFrom, correctAnswers, storyBubbleIndex,
                                mechanicState>>
    /\ UNCHANGED <<choiceTimers, commitTimers, choiceLog>>
    /\ UNCHANGED loadVars
    /\ InventoryFollows
    /\ UIFollows

\* the values makeChoice closes over (its useCallback dependencies, line 258)
Closure == [selectedCreature |-> selectedCreature, currentLevel |-> currentLevel,
            gameState |-> gameState, correctAnswers |-> correctAnswers]

\* const decreaseAmount = currentLevel === 0 ? 25 : currentLevel === 1 ? 30 : 35
decreaseAmount(level) == IF level = 0 THEN 25 ELSE IF level = 1 THEN 30 ELSE 35

\* a decrease that is not clamped at 0
decreaseCalmnessUnclamped(prev, level) ==
    IF "calmnessLevel" \in DOMAIN prev
    THEN Spread(prev, [calmnessLevel |-> prev.calmnessLevel - decreaseAmount(level)])
    ELSE Spread(prev, [calmnessLevel |-> NaN])

\* Math.max(0, prev.calmnessLevel - decreaseAmount)
decreaseCalmness(prev, level) ==
    IF "calmnessLevel" \in DOMAIN prev
    THEN LET v == prev.calmnessLevel - decreaseAmount(level)
         IN  Spread(prev, [calmnessLevel |-> IF v > 0 THEN v ELSE 0])
    ELSE Spread(prev, [calmnessLevel |-> NaN])

\* a miscount: a correct choice counted twice
countAfterTwice(correct, isCorrect) == IF isCorrect THEN correct + 2 ELSE correct

\* the count the final level decides on: correctAnswers + 1 after a correct
\* choice (line 219), correctAnswers after an incorrect one (line 243)
countAfter(correct, isCorrect) == IF isCorrect THEN correct + 1 ELSE correct

\* a stricter rule: all three needed
finalOutcomeAllThree(count) == IF count >= 3 THEN "victory" ELSE "defeat"

\* need 2/3 correct (lines 225-229 and 243-247)
finalOutcome(count) == IF count >= 2 THEN "victory" ELSE "defeat"

\* the choice makeChoice accepts: <<>> when it returns early (lines 190-199)
AcceptedChoice(c, choiceIndex) ==
    IF c.selectedCreature = NoCreature \/ c.gameState # "level" THEN <<>>
    ELSE LET levelData == LevelData(c.selectedCreature, c.currentLevel)
         IN  IF levelData = <<>> THEN <<>>
             ELSE IF choiceIndex + 1 \in DOMAIN levelData[1].choices
                  THEN << levelData[1].choices[choiceIndex + 1] >> ELSE <<>>

\* the entry an accepted choice leaves in the history: it counts as a choice of
\* its level only if it was made on the current state and is the first there
Logged(c, choice) ==
    IF c = Closure /\ choiceLog[c.currentLevel] = "none"
    THEN (IF choice.isCorrect THEN "correct" ELSE "incorrect")
    ELSE "spoiled"

\* makeChoice run with the closure c: the current one when the hook's caller
\* invokes it, an older one when a delayed callback does
makeChoice(c, choiceIndex) ==
    IF AcceptedChoice(c, choiceIndex) = <<>>
    THEN UNCHANGED <<engineVars, choiceTimers, choiceLog>>
    ELSE LET choice == AcceptedChoice(c, choiceIndex)[1]
             creature == c.selectedCreature[1]
         IN  /\ choice.isCorrect => c.correctAnswers < MaxCorrect
             /\ consequenceText' = choice.consequence
             /\ mechanicState' =
                    IF creature.coreMechanic = "calmness" /\ ~choice.isCorrect
                    THEN decreaseCalmness(mechanicState, c.currentLevel)
                    ELSE mechanicState
             /\ correctAnswers' =
                    IF choice.isCorrect THEN countAfter(c.correctAnswers, TRUE)
                    ELSE correctAnswers
             /\ IF c.currentLevel = 2
                THEN /\ outcome' = finalOutcome(countAfter(c.correctAnswers, choice.isCorrect))
                     /\ gameState' = "end"
                     /\ UNCHANGED choiceTimers
                ELSE /\ Len(choiceTimers) < MaxChoiceTimers
                     /\ choiceTimers' = Append(choiceTimers, c.currentLevel)
                     /\ UNCHANGED <<gameState, outcome>>
             /\ choiceLog' = [choiceLog EXCEPT ![c.currentLevel] = Logged(c, choice)]
             /\ UNCHANGED <<selectedCreature, currentLevel, transitionFrom,
                            animationState, storyBubbleIndex>>

\* a callback that also enters the next level
choiceTimerCallbackAdvancing(level) ==
    /\ transitionFrom' = level
    /\ gameState' = "levelTransition"
    /\ consequenceText' = ""
    /\ currentLevel' = level + 1
    /\ UNCHANGED <<selectedCreature, outcome, correctAnswers,
                   animationState, storyBubbleIndex, mechanicState>>

\* the callback of the 2000 ms timer (lines 233-237 and 251-255)
choiceTimerCallback(level) ==
    /\ transitionFrom' = level
    /\ gameState' = "levelTransition"
    /\ consequenceText' = ""
    /\ UNCHANGED <<selectedCreature, currentLevel, outcome, correctAnswers,
                   animationState, storyBubbleIndex, mechanicState>>

\* a restart that forgets to clear the correct-count
restartGameKeepingCount ==
    /\ gameState' = "characterReveal"
    /\ currentLevel' = 0
    /\ outcome' = "null"
    /\ consequenceText' = ""
    /\ storyBubbleIndex' = 0
    /\ animationState' = InitialAnimationState
    /\ mechanicState' = AllMechanicDefaults
    /\ choiceLog' = FreshLog
    /\ UNCHANGED <<selectedCreature, transitionFrom, correctAnswers>>
    /\ UNCHANGED <<choiceTimers, commitTimers>>
    /\ UNCHANGED loadVars
    /\ InventoryFollows
    /\ UIFollows

restartGame ==
    /\ gameState' = "characterReveal"
    /\ currentLevel' = 0
    /\ outcome' = "null"
    /\ correctAnswers' = 0
    /\ consequenceText' = ""
    /\ storyBubbleIndex' = 0
    /\ animationState' = InitialAnimationState
    /\ mechanicState' = AllMechanicDefaults
    /\ choiceLog' = FreshLog
    /\ UNCHANGED <<selectedCreature, transitionFrom>>
    /\ UNCHANGED <<choiceTimers, commitTimers>>
    /\ UNCHANGED loadVars
    /\ InventoryFollows
    /\ UIFollows

goHome ==
    /\ selectedCreature' = NoCreature
    /\ gameState' = "select"
    /\ currentLevel' = 0
    /\ outcome' = "null"
    /\ correctAnswers' = 0
    /\ consequenceText' = ""
    /\ storyBubbleIndex' = 0
    /\ animationState' = InitialAnimationState
    /\ mechanicState' = AllMechanicDefaults
    /\ choiceLog' = FreshLog
    /\ UNCHANGED transitionFrom
    /\ UNCHANGED <<choiceTimers, commitTimers>>
    /\ UNCHANGED loadVars
    /\ InventoryFollows
    /\ UIFollows

completeLevelTransition ==
    /\ currentLevel < MaxLevel
    /\ currentLevel' = currentLevel + 1
    /\ gameState' = "level"
    /\ UNCHANGED <<selectedCreature, outcome, consequenceText, transitionFrom,
                   correctAnswers, animationState, storyBubbleIndex, mechanicState>>
    /\ UNCHANGED <<choiceTimers, commitTimers, choiceLog>>
    /\ UNCHANGED loadVars
    /\ InventoryFollows
    /\ UIFollows

\* a partial update the presentation sends (Inventory.jsx line 85)
MechanicUpdates == { [hintsRevealed |-> 1] }

updateMechanicState(updates) ==
    /\ mechanicState' = Spread(mechanicState, updates)
    /\ UNCHANGED <<gameState, selectedCreature, currentLevel, outcome, consequenceText,
                   transitionFrom, correctAnswers, animationState, storyBubbleIndex>>
    /\ UNCHANGED <<choiceTimers, commitTimers, choiceLog>>
    /\ UNCHANGED loadVars
    /\ InventoryFollows
    /\ UIFollows

-----------------------------------------------------------------------------
\* GameplayScreen (src/unnamed/part_005) and the delayed callbacks.

\* the choice buttons GameplayScreen renders for the current level
ChoiceButtons ==
    IF GameplayMounted(gameState, selectedCreature, currentLevel)
    THEN {i - 1 : i \in DOMAIN LevelData(selectedCreature, currentLevel)[1].choices}
    ELSE {}

\* handleChoice: a click on a choice button. The first click of a mounted
\* screen is kept and starts the 4200 ms timer, which will call the onChoice
\* of this render, that is makeChoice with the closure of this render. (The
\* correctItem branch is dead: no loadable choice carries a correctItem.)
handleChoice(index) ==
    /\ index \in ChoiceButtons
    /\ IF selectedChoice # NoChoice
       THEN UNCHANGED <<selectedChoice, commitTimers>>
       ELSE /\ Len(commitTimers) < MaxCommitTimers
            /\ selectedChoice' = index
            /\ commitTimers' = Append(commitTimers, [closure |-> Closure, index |-> index])
    /\ UNCHANGED <<engineVars, choiceTimers, choiceLog>>
    /\ UNCHANGED loadVars
    /\ InventoryFollows

\* the 4200 ms timer fires: onChoice(index)
commitTimerFires ==
    /\ commitTimers # <<>>
    /\ makeChoice(Head(commitTimers).closure, Head(commitTimers).index)
    /\ commitTimers' = Tail(commitTimers)
    /\ UNCHANGED loadVars
    /\ InventoryFollows
    /\ UIFollows

\* the 2000 ms timer fires
choiceTimerFires ==
    /\ choiceTimers # <<>>
    /\ choiceTimerCallback(Head(choiceTimers))
    /\ choiceTimers' = Tail(choiceTimers)
    /\ UNCHANGED <<commitTimers, choiceLog>>
    /\ UNCHANGED loadVars
    /\ InventoryFollows
    /\ UIFollows

\* makeChoice called by the hook's user on the current render
makeChoiceCall(choiceIndex) ==
    /\ makeChoice(Closure, choiceIndex)
    /\ UNCHANGED commitTimers
    /\ UNCHANGED loadVars
    /\ InventoryFollows
    /\ UIFollows

\* arguments the callers pass: the ids of the three creatures and one unknown
\* id; the two choice indices and one out of range
CreatureIds == {"baba-yaga", "banshee", "aswang", "kitsune"}

ChoiceIndices == {0, 1, 2}

-----------------------------------------------------------------------------
\* The data loader (src/unnamed/part_006, utils/dataLoader.js).
\*
\* A parsed creature payload is [isObject, creaturesIsArray, creatures]; an
\* entry of creatures is [id, name, coreMechanic, levelsIsArray, levels] with
\* "" for a missing string; a level is [choices] (a missing choices array reads
\* as the empty one, line 98); a choice is [isCorrect, consequence] with
\* isCorrect one of "true", "false", "absent".

\* bounds of the payloads
MaxPayloadCreatures == 1
MaxPayloadLevels == 3

\* the choices arrays a payload level may carry: none, one choice, the regular
\* two, and three with a choice that has no isCorrect
ChoiceSeqs ==
    LET t == [isCorrect |-> "true",   consequence |-> "won"]
        f == [isCorrect |-> "false",  consequence |-> "lost"]
        a == [isCorrect |-> "absent", consequence |-> ""]
    IN  { <<>>, <<t>>, <<f, t>>, <<t, f, a>> }

\* the levels arrays: n levels with the same choices, n up to MaxPayloadLevels
LevelSeqs ==
    { [l \in 1..n |-> [choices |-> cs]] : n \in 0..MaxPayloadLevels, cs \in ChoiceSeqs }

CreatureEntries ==
    [id : {"", "test"}, name : {"", "Test"}, coreMechanic : {"", "calmness"},
     levelsIsArray : {TRUE}, levels : LevelSeqs]
    \cup
    [id : {"", "test"}, name : {"", "Test"}, coreMechanic : {"", "calmness"},
     levelsIsArray : {FALSE}, levels : {<<>>}]

CreaturePayloads ==
    { [isObject |-> FALSE, creaturesIsArray |-> FALSE, creatures |-> <<>>],
      [isObject |-> TRUE,  creaturesIsArray |-> FALSE, creatures |-> <<>>] }
    \cup
    { [isObject |-> TRUE, creaturesIsArray |-> TRUE, creatures |-> cs] :
        cs \in UNION { [1..n -> CreatureEntries] : n \in 0..MaxPayloadCreatures } }

\* a validation that does not look at the levels
validateCreatureDataNoLevels(data) ==
    /\ data.isObject
    /\ data.creaturesIsArray
    /\ \A i \in DOMAIN data.creatures :
          LET creature == data.creatures[i]
          IN  /\ creature.id # ""
              /\ creature.name # ""

validateCreatureData(data) ==
    /\ data.isObject
    /\ data.creaturesIsArray
    /\ \A i \in DOMAIN data.creatures :
          LET creature == data.creatures[i]
          IN  /\ creature.id # ""
              /\ creature.name # ""
              /\ creature.levelsIsArray
              /\ Len(creature.levels) > 0

\* x || d for strings
OrElse(x, d) == IF x = "" THEN d ELSE x

applySafeDefaultsToCreatureData(data) ==
    IF ~data.isObject \/ ~data.creaturesIsArray THEN fallbackCreatureData
    ELSE [creatures |->
            [i \in DOMAIN data.creatures |->
                LET creature == data.creatures[i]
                IN  [id |-> OrElse(creature.id, "unknown"),
                     name |-> OrElse(creature.name, "Unknown Creature"),
                     coreMechanic |-> OrElse(creature.coreMechanic, "none"),
                     levels |->
                        [l \in DOMAIN creature.levels |->
                            [choices |->
                                [c \in DOMAIN creature.levels[l].choices |->
                                    LET choice == creature.levels[l].choices[c]
                                    IN  [isCorrect |-> (choice.isCorrect = "true"),
                                         consequence |-> choice.consequence]]]]]]]

\* A parsed UI payload is [isObject, creatures, gameStates, soundCues,
\* transitions, accessibility, performance]: creatures and gameStates are
\* "absent", "object" or "string" (a truthy non-object); the other four are
\* TRUE when present. A UI config records where each table came from.
UIPayloads ==
    { [isObject |-> TRUE, creatures |-> c, gameStates |-> g, soundCues |-> s,
       transitions |-> o, accessibility |-> o, performance |-> o] :
        c \in {"absent", "object", "string"}, g \in {"absent", "object", "string"},
        s \in BOOLEAN, o \in BOOLEAN }
    \cup
    { [isObject |-> FALSE, creatures |-> "absent", gameStates |-> "absent",
       soundCues |-> FALSE, transitions |-> FALSE, accessibility |-> FALSE,
       performance |-> FALSE] }

fallbackUIConfig ==
    [creatures |-> "fallback", gameStates |-> "fallback", soundCues |-> "fallback",
     transitions |-> "fallback", accessibility |-> "fallback", performance |-> "fallback"]

validateUIConfig(config) ==
    /\ config.isObject
    /\ config.creatures = "object"
    /\ config.gameStates = "object"

FromPayload(present) == IF present THEN "fetched" ELSE "fallback"

applySafeDefaultsToUIConfig(config) ==
    IF ~config.isObject THEN fallbackUIConfig
    ELSE [creatures |-> FromPayload(config.creatures # "absent"),
          gameStates |-> FromPayload(config.gameStates # "absent"),
          soundCues |-> FromPayload(config.soundCues),
          transitions |-> FromPayload(config.transitions),
          accessibility |-> FromPayload(config.accessibility),
          performance |-> FromPayload(config.performance)]

\* what a fetch and the reading of its body can come to
FetchResults == {"reject", "notOk", "ok"}

\* loadCreatureData after its fetch settled (lines 158-163, 177-182)
creatureFetchSettles(r) ==
    /\ creatureLoad.pc = "fetch"
    /\ creatureLoad' =
          IF r = "ok" THEN [creatureLoad EXCEPT !.pc = "json"]
          ELSE [pc |-> "done", how |-> r, body |-> <<>>,
                result |-> <<fallbackCreatureData>>]
    /\ UNCHANGED <<gameData, uiConfig, isLoading, uiLoad>>
    /\ UNCHANGED <<engineVars, choiceTimers, commitTimers, selectedChoice, choiceLog>>
    /\ UNCHANGED inventoryVars

\* response.json() throws on an unparseable body (lines 166, 177-182)
creatureJsonRejects ==
    /\ creatureLoad.pc = "json"
    /\ creatureLoad' = [pc |-> "done", how |-> "unparseable", body |-> <<>>,
                        result |-> <<fallbackCreatureData>>]
    /\ UNCHANGED <<gameData, uiConfig, isLoading, uiLoad>>
    /\ UNCHANGED <<engineVars, choiceTimers, commitTimers, selectedChoice, choiceLog>>
    /\ UNCHANGED inventoryVars

\* response.json() yields data (lines 166-175)
creatureJsonSettles(data) ==
    /\ creatureLoad.pc = "json"
    /\ creatureLoad' =
          IF ~validateCreatureData(data)
          THEN [pc |-> "done", how |-> "invalid", body |-> <<data>>,
                result |-> <<fallbackCreatureData>>]
          ELSE [pc |-> "done", how |-> "valid", body |-> <<data>>,
                result |-> <<applySafeDefaultsToCreatureData(data)>>]
    /\ UNCHANGED <<gameData, uiConfig, isLoading, uiLoad>>
    /\ UNCHANGED <<engineVars, choiceTimers, commitTimers, selectedChoice, choiceLog>>
    /\ UNCHANGED inventoryVars

uiFetchSettles(r) ==
    /\ uiLoad.pc = "fetch"
    /\ uiLoad' =
          IF r = "ok" THEN [uiLoad EXCEPT !.pc = "json"]
          ELSE [pc |-> "done", how |-> r, body |-> <<>>, result |-> <<fallbackUIConfig>>]
    /\ UNCHANGED <<gameData, uiConfig, isLoading, creatureLoad>>
    /\ UNCHANGED <<engineVars, choiceTimers, commitTimers, selectedChoice, choiceLog>>
    /\ UNCHANGED inventoryVars

uiJsonRejects ==
    /\ uiLoad.pc = "json"
    /\ uiLoad' = [pc |-> "done", how |-> "unparseable", body |-> <<>>,
                  result |-> <<fallbackUIConfig>>]
    /\ UNCHANGED <<gameData, uiConfig, isLoading, creatureLoad>>
    /\ UNCHANGED <<engineVars, choiceTimers, commitTimers, selectedChoice, choiceLog>>
    /\ UNCHANGED inventoryVars

uiJsonSettles(config) ==
    /\ uiLoad.pc = "json"
    /\ uiLoad' =
          IF ~validateUIConfig(config)
          THEN [pc |-> "done", how |-> "invalid", body |-> <<config>>,
                result |-> <<fallbackUIConfig>>]
          ELSE [pc |-> "done", how |-> "valid", body |-> <<config>>,
                result |-> <<applySafeDefaultsToUIConfig(config)>>]
    /\ UNCHANGED <<gameData, uiConfig, isLoading, creatureLoad>>
    /\ UNCHANGED <<engineVars, choiceTimers, commitTimers, selectedChoice, choiceLog>>
    /\ UNCHANGED inventoryVars

\* a loader that falls back on both datasets when either one failed
loadAllGameDataTogether ==
    /\ isLoading
    /\ creatureLoad.pc = "done"
    /\ uiLoad.pc = "done"
    /\ gameData' = IF creatureLoad.how = "valid" /\ uiLoad.how = "valid"
                   THEN creatureLoad.result ELSE <<fallbackCreatureData>>
    /\ uiConfig' = IF creatureLoad.how = "valid" /\ uiLoad.how = "valid"
                   THEN uiLoad.result ELSE <<fallbackUIConfig>>
    /\ isLoading' = FALSE
    /\ UNCHANGED <<creatureLoad, uiLoad>>
    /\ UNCHANGED <<engineVars, choiceTimers, commitTimers, selectedChoice, choiceLog>>
    /\ UNCHANGED inventoryVars

\* Promise.all resolves and App.initializeData stores the two results
\* (part_006 lines 222-232, part_009 lines 106-117)
loadAllGameData ==
    /\ isLoading
    /\ creatureLoad.pc = "done"
    /\ uiLoad.pc = "done"
    /\ gameData' = creatureLoad.result
    /\ uiConfig' = uiLoad.result
    /\ isLoading' = FALSE
    /\ UNCHANGED <<creatureLoad, uiLoad>>
    /\ UNCHANGED <<engineVars, choiceTimers, commitTimers, selectedChoice, choiceLog>>
    /\ UNCHANGED inventoryVars

-----------------------------------------------------------------------------
\* The specifications.

\* the state of a loader: pc is fetch, json or done; how tells what the
\* resource came to, body holds the parsed payload, result the value returned
LoadPending == [pc |-> "fetch", how |-> "", body |-> <<>>, result |-> <<>>]

LoadedFallback(data) == [pc |-> "done", how |-> "notOk", body |-> <<>>, result |-> <<data>>]

EngineInit ==
    /\ gameState = "intro"
    /\ selectedCreature = NoCreature
    /\ currentLevel = 0
    /\ outcome = "null"
    /\ consequenceText = ""
    /\ transitionFrom = 0
    /\ correctAnswers = 0
    /\ animationState = InitialAnimationState
    /\ storyBubbleIndex = 0
    /\ mechanicState = AllMechanicDefaults
    /\ choiceTimers = <<>>
    /\ commitTimers = <<>>
    /\ selectedChoice = NoChoice
    /\ choiceLog = FreshLog
    /\ showHint = FALSE
    /\ hintTimers = <<>>
    /\ misses = 0

\* The engine on the embedded content, as after a load that fell back.
Init ==
    /\ EngineInit
    /\ gameData = <<fallbackCreatureData>>
    /\ uiConfig = <<fallbackUIConfig>>
    /\ isLoading = FALSE
    /\ creatureLoad = LoadedFallback(fallbackCreatureData)
    /\ uiLoad = LoadedFallback(fallbackUIConfig)

\* the operations the hook returns (lines 358-370)
PublicOperation ==
    \/ startGame
    \/ \E id \in CreatureIds : selectCreature(id)
    \/ completeEntranceAnimation
    \/ completeCloseUpAnimation
    \/ advanceStoryBubble
    \/ \E i \in ChoiceIndices : makeChoiceCall(i)
    \/ completeLevelTransition
    \/ restartGame
    \/ goHome
    \/ \E u \in MechanicUpdates : updateMechanicState(u)

\* The hook under any caller: every operation at any time, on the current
\* render, and the timers makeChoice started.
Next ==
    \/ PublicOperation
    \/ choiceTimerFires

Spec == Init /\ [][Next]_vars

\* the ids CreatureSelection offers (CreatureSelection.jsx lines 72, 110)
OfferedIds ==
    IF gameData = <<>> THEN {}
    ELSE {gameData[1].creatures[i].id : i \in DOMAIN gameData[1].creatures}

\* The hook under App (src/unnamed/part_009): each operation is called from
\* the screen App renders for the phase, the choices go through
\* GameplayScreen's 4200 ms timer, and no timer is cancelled.
AppNext ==
    \/ gameState = "intro" /\ startGame
    \/ gameState = "select" /\ \E id \in OfferedIds : selectCreature(id)
    \/ gameState = "characterReveal" /\ selectedCreature # NoCreature
          /\ completeEntranceAnimation
    \/ gameState = "characterReveal" /\ selectedCreature # NoCreature
          /\ completeCloseUpAnimation
    \/ gameState = "story" /\ advanceStoryBubble
    \/ \E i \in ChoiceIndices : handleChoice(i)
    \/ commitTimerFires
    \/ choiceTimerFires
    \/ gameState = "levelTransition" /\ selectedCreature # NoCreature
          /\ completeLevelTransition
    \/ gameState = "end" /\ restartGame
    \/ gameState \in {"characterReveal", "story", "level", "end"} /\ goHome
    \/ GameplayMounted(gameState, selectedCreature, currentLevel)
          /\ \E u \in MechanicUpdates : updateMechanicState(u)

AppSpec == Init /\ [][AppNext]_vars

\* The application at mount: both fetches pending, the engine not yet used.
LoadInit ==
    /\ EngineInit
    /\ gameData = <<>>
    /\ uiConfig = <<>>
    /\ isLoading = TRUE
    /\ creatureLoad = LoadPending
    /\ uiLoad = LoadPending

LoadNext ==
    \/ \E r \in FetchResults : creatureFetchSettles(r)
    \/ creatureJsonRejects
    \/ \E data \in CreaturePayloads : creatureJsonSettles(data)
    \/ \E r \in FetchResults : uiFetchSettles(r)
    \/ uiJsonRejects
    \/ \E config \in UIPayloads : uiJsonSettles(config)
    \/ loadAllGameData

LoadSpec == LoadInit /\ [][LoadNext]_vars

-----------------------------------------------------------------------------
\* The claims about the engine.

\* the session variables with the recorded from-level
sessionAndFrom == <<gameState, selectedCreature, currentLevel, transitionFrom,
                    correctAnswers, consequenceText, mechanicState, outcome>>

\* the levels of the history that hold one choice made on the current state
Played == {l \in DOMAIN choiceLog : choiceLog[l] \in {"correct", "incorrect"}}

\* the session ended after exactly one choice at each of the levels 0, 1, 2
ThreeChoicesPlayed ==
    /\ gameState = "end"
    /\ Played = {0, 1, 2}
    /\ \A l \in DOMAIN choiceLog : l \notin Played => choiceLog[l] = "none"

CorrectPlayed == Cardinality({l \in Played : choiceLog[l] = "correct"})

AcceptedBeforeFinal(i) ==
    /\ makeChoiceCall(i)
    /\ AcceptedChoice(Closure, i) # <<>>
    /\ currentLevel \in {0, 1}

C3_IncorrectChoiceDefeats ==
    [][\A i \in ChoiceIndices :
          ( /\ makeChoiceCall(i)
            /\ AcceptedChoice(Closure, i) # <<>>
            /\ ~AcceptedChoice(Closure, i)[1].isCorrect
            /\ currentLevel \in {0, 1, 2} ) =>
          /\ gameState' = "end"
          /\ outcome' = "defeat"
          /\ currentLevel' = currentLevel]_vars

\* the phase changes of the specified graph
PhaseGraph ==
    { <<"intro", "select">>, <<"select", "characterReveal">>,
      <<"characterReveal", "story">>, <<"story", "level">>,
      <<"level", "levelTransition">>, <<"levelTransition", "level">>,
      <<"level", "end">>, <<"end", "characterReveal">> }
    \cup
    { <<p, "select">> : p \in {"intro", "characterReveal", "story", "level",
                               "levelTransition", "end"} }

\* C4: every change of phase is a transition of the specified graph, and the
\* phase never returns to intro.
C4_PhaseGraph ==
    [][gameState' # gameState => <<gameState, gameState'>> \in PhaseGraph]_vars

\* C5: an operation invoked in a phase in which it is not valid, or
\* selectCreature with an unknown id, leaves the session state unchanged.
C5_InvalidIsNoOp ==
    [][( \/ gameState # "intro" /\ startGame
         \/ gameState # "select" /\ \E id \in CreatureIds : selectCreature(id)
         \/ gameData # <<>> /\ \E id \in CreatureIds :
               /\ FindCreature(gameData[1], id) = NoCreature
               /\ selectCreature(id)
         \/ gameState # "characterReveal" /\ completeCloseUpAnimation
         \/ gameState # "story" /\ advanceStoryBubble
         \/ gameState # "levelTransition" /\ completeLevelTransition
         \/ gameState # "end" /\ restartGame )
       => UNCHANGED sessionVars]_vars

\* this step is makeChoice run in a phase other than level, or with an index
\* out of range for the current level
RejectedChoice ==
    \/ gameState # "level" /\ commitTimerFires
    \/ \E i \in ChoiceIndices :
          /\ makeChoiceCall(i)
          /\ \/ gameState # "level"
             \/ LevelData(selectedCreature, currentLevel) = <<>>
             \/ i + 1 \notin DOMAIN LevelData(selectedCreature, currentLevel)[1].choices

\* C6: makeChoice invoked while the phase is not level, or with a choice index
\* out of range, changes no session state.
C6_RejectedChoiceIsNoOp ==
    [][RejectedChoice => UNCHANGED sessionVars]_vars

-----------------------------------------------------------------------------
\* The claims about the loader.

\* every creature of the repository has an id, a name and levels levels of
\* choices choices each
Shaped(data, levels, choices) ==
    \A i \in DOMAIN data.creatures :
        LET creature == data.creatures[i]
        IN  /\ creature.id # ""
            /\ creature.name # ""
            /\ Len(creature.levels) \in levels
            /\ \A l \in DOMAIN creature.levels :
                  Len(creature.levels[l].choices) \in choices

WellFormed(data) ==
    /\ data.isObject
    /\ data.creaturesIsArray
    /\ Len(data.creatures) > 0
    /\ \A i \in DOMAIN data.creatures :
          /\ data.creatures[i].id # ""
          /\ data.creatures[i].name # ""
          /\ data.creatures[i].levelsIsArray
          /\ Len(data.creatures[i].levels) > 0

\* C9: a parsed creature payload passes validation only if its collection is
\* non-empty and every entry has an id, a name and a non-empty list of levels;
\* any other payload, the empty collection too, is replaced by the embedded
\* dataset.
C9_OnlyWellFormedPasses ==
    (creatureLoad.pc = "done" /\ creatureLoad.body # <<>>) =>
        /\ creatureLoad.how = "valid" => WellFormed(creatureLoad.body[1])
        /\ ~WellFormed(creatureLoad.body[1]) =>
              creatureLoad.result = <<fallbackCreatureData>>

\* what loadCreatureData owes for what its own resource came to
CreatureOwed ==
    IF creatureLoad.how = "valid"
    THEN applySafeDefaultsToCreatureData(creatureLoad.body[1])
    ELSE fallbackCreatureData

\* what loadUIConfig owes for what its own resource came to
UIOwed ==
    IF uiLoad.how = "valid"
    THEN applySafeDefaultsToUIConfig(uiLoad.body[1])
    ELSE fallbackUIConfig

\* C10: the two datasets fail independently: what is loaded for one dataset
\* is decided by its own resource alone, the embedded default when that
\* resource failed and the fetched, defaulted content when it validated,
\* whatever the other resource came to.
C10_IndependentFallback ==
    ~isLoading =>
        /\ gameData = <<CreatureOwed>>
        /\ uiConfig = <<UIOwed>>

\* the creature data was fetched while the UI config fell back
C10_Witness ==
    /\ ~isLoading
    /\ creatureLoad.how = "valid" /\ uiLoad.how = "notOk"
    /\ Len(gameData[1].creatures) = 1
    /\ gameData[1].creatures[1].id = "test"
    /\ uiConfig = <<fallbackUIConfig>>

-----------------------------------------------------------------------------
\* Termination of the loader.

\* The loader with what its scheduling guarantees: a body that arrived is
\* read to its end, and Promise.all resolves once both loaders returned.
\* Nothing bounds a pending fetch: fetch is called with the URL alone, with no
\* timeout and no abort signal (part_006 lines 158 and 192).
LoadFairSpec ==
    /\ LoadInit
    /\ [][LoadNext]_vars
    /\ WF_vars(creatureJsonRejects \/ \E data \in CreaturePayloads : creatureJsonSettles(data))
    /\ WF_vars(uiJsonRejects \/ \E config \in UIPayloads : uiJsonSettles(config))
    /\ WF_vars(loadAllGameData)

\* C11: the load always terminates with a result: a fetch that does not
\* settle is cut off by a timeout and treated as a failure, so the
\* application eventually leaves its loading state.
C11_LoadTerminates == <>(~isLoading)

-----------------------------------------------------------------------------
\* The claims about restarting.

C13_RestartAsSelect ==
    [][(gameState = "end" /\ selectedCreature # NoCreature /\ restartGame) =>
          selectCreature(selectedCreature[1].id)]_vars

\* C14: after restartGame at the end of a game the phase is select, no
\* creature is selected, the level index is 0, the outcome is none, the
\* consequence text is empty and the mechanic state is the three defaults.
C14_RestartToSelection ==
    [][(gameState = "end" /\ restartGame) =>
          /\ gameState' = "select"
          /\ selectedCreature' = NoCreature
          /\ currentLevel' = 0
          /\ outcome' = "null"
          /\ consequenceText' = ""
          /\ mechanicState' = AllMechanicDefaults]_vars

-----------------------------------------------------------------------------
\* The claims about the level index.

\* C15: once the 2000 ms after a correct choice made in phase level at level
\* L, 0 or 1, have elapsed, the level index is L + 1, the phase is level and
\* the outcome is none, with no further operation invoked.
C15_LevelAfterDelay ==
    [][(choiceTimerFires /\ choiceLog[Head(choiceTimers)] = "correct") =>
          /\ currentLevel' = Head(choiceTimers) + 1
          /\ gameState' = "level"
          /\ outcome' = "null"]_vars

\* C16: the level index is 0, 1 or 2 in every reachable state, and
\* completeLevelTransition moves the phase from levelTransition to level and
\* raises the level index by exactly 1, never above 2.
C16_LevelInRange ==
    [][/\ currentLevel \in {0, 1, 2}
       /\ currentLevel' \in {0, 1, 2}
       /\ (gameState = "levelTransition" /\ completeLevelTransition) =>
             /\ gameState' = "level"
             /\ currentLevel' = currentLevel + 1]_vars

-----------------------------------------------------------------------------
\* The engine on loaded content.

\* The application at mount with the UI config already fallen back and the
\* fetch of the creature data pending.
LoadedInit ==
    /\ EngineInit
    /\ gameData = <<>>
    /\ uiConfig = <<>>
    /\ isLoading = TRUE
    /\ creatureLoad = LoadPending
    /\ uiLoad = LoadedFallback(fallbackUIConfig)

\* The creature loader, and then the hook on what it returned: App renders
\* its screens, and so calls the hook, only once isLoading is false
\* (part_009 lines 283-296). The session is taken as far as the first level.
LoadedNext ==
    \/ \E r \in FetchResults : creatureFetchSettles(r)
    \/ creatureJsonRejects
    \/ \E data \in CreaturePayloads : creatureJsonSettles(data)
    \/ loadAllGameData
    \/ ~isLoading /\ startGame
    \/ ~isLoading /\ \E id \in OfferedIds : selectCreature(id)
    \/ ~isLoading /\ completeCloseUpAnimation
    \/ ~isLoading /\ advanceStoryBubble
    \/ ~isLoading /\ \E i \in ChoiceIndices : makeChoiceCall(i)
    \/ ~isLoading /\ choiceTimerFires
    \/ ~isLoading /\ goHome
    \/ ~isLoading /\ \E u \in MechanicUpdates : updateMechanicState(u)

LoadedSpec == LoadedInit /\ [][LoadedNext]_vars


\* the default mechanic states the claims name, by mechanic
TaggedDefaults ==
    [riddle |-> [hintsRevealed |-> 0],
     calmness |-> [calmnessLevel |-> 100],
     deduction |-> [tokensCollected |-> <<>>]]

\* C17: selectCreature(id) with an id of the repository leaves level index 0,
\* correct-count 0, an empty consequence text and the mechanic state equal to
\* the default of that creature's mechanic, whatever the state before and for
\* every creature the loader can produce.
C17_SelectResets ==
    [][\A id \in OfferedIds :
          (~isLoading /\ selectCreature(id)) =>
              /\ currentLevel' = 0
              /\ correctAnswers' = 0
              /\ consequenceText' = ""
              /\ \E m \in DOMAIN TaggedDefaults : mechanicState' = TaggedDefaults[m]
              /\ \A m \in DOMAIN TaggedDefaults :
                    selectedCreature'[1].coreMechanic = m =>
                        mechanicState' = TaggedDefaults[m]]_vars

-----------------------------------------------------------------------------
\* The calmness meter.

\* the values of the meter a game may begin with
CalmnessLevels == 0..100

\* The Banshee's game at the first level: after selectCreature('banshee'), the
\* two animations and the four story bubbles, with the meter put to any start
\* by updateMechanicState({calmnessLevel: start}).
CalmInit ==
    /\ gameState = "level"
    /\ selectedCreature = FindCreature(fallbackCreatureData, "banshee")
    /\ currentLevel = 0
    /\ outcome = "null"
    /\ consequenceText = ""
    /\ transitionFrom = 0
    /\ correctAnswers = 0
    /\ animationState =
          [entranceComplete |-> TRUE, closeUpComplete |-> TRUE, storyComplete |-> TRUE]
    /\ storyBubbleIndex = 3
    /\ \E start \in CalmnessLevels : mechanicState = [calmnessLevel |-> start]
    /\ choiceTimers = <<>>
    /\ commitTimers = <<>>
    /\ selectedChoice = NoChoice
    /\ choiceLog = FreshLog
    /\ showHint = FALSE
    /\ hintTimers = <<>>
    /\ misses = 0
    /\ gameData = <<fallbackCreatureData>>
    /\ uiConfig = <<fallbackUIConfig>>
    /\ isLoading = FALSE
    /\ creatureLoad = LoadedFallback(fallbackCreatureData)
    /\ uiLoad = LoadedFallback(fallbackUIConfig)

\* the choices applied in order: a choice, its 2000 ms timer, the transition
CalmNext ==
    \/ \E i \in ChoiceIndices : makeChoiceCall(i)
    \/ choiceTimerFires
    \/ gameState = "levelTransition" /\ completeLevelTransition

CalmSpec == CalmInit /\ [][CalmNext]_vars

\* 1 when the choice logged at the level was incorrect, 0 otherwise
Incorrect(level) == IF choiceLog[level] = "incorrect" THEN 1 ELSE 0

\* the meter the claim gives for the choices made so far
MeterFrom(start) ==
    LET v == start - 25 * Incorrect(0) - 30 * Incorrect(1) - 35 * Incorrect(2)
    IN  IF v > 0 THEN v ELSE 0

\* at most one choice was made at each level
OneChoicePerLevel == \A l \in DOMAIN choiceLog : choiceLog[l] # "spoiled"

\* C18: for a calmness creature, whatever value in 0..100 the meter starts
\* with and whatever the pattern of correct and incorrect choices at the
\* levels 0, 1, 2, one per level and in order, the meter stays within 0..100
\* and equals
\* max(0, start - 25 [incorrect at 0] - 30 [incorrect at 1] - 35 [incorrect at 2]),
\* correct choices changing nothing.
C18_MeterByPattern ==
    \A start \in CalmnessLevels :
        mechanicState.calmnessLevel = start =>
            [](/\ mechanicState.calmnessLevel \in 0..100
               /\ OneChoicePerLevel => mechanicState.calmnessLevel = MeterFrom(start))

\* a game lost from start 60 with incorrect choices at levels 0 and 2: the
\* meter went 60, 35, 35, 0
C18_Witness ==
    /\ gameState = "end"
    /\ choiceLog[0] = "incorrect" /\ choiceLog[1] = "correct" /\ choiceLog[2] = "incorrect"
    /\ mechanicState.calmnessLevel = 0
    /\ consequenceText = "banshee/2/1"

-----------------------------------------------------------------------------
\* The Aswang's tokens (src/src/components/Inventory.jsx, renderDeductionSystem).

\* the ids of availableTokens, in the order of the source
availableTokens ==
    << "reversed-reflection", "no-shadow", "salt-reaction",
       "garlic-aversion", "extended-tongue", "leathery-wings" >>

validCombinations ==
    << << "reversed-reflection", "no-shadow" >>,
       << "salt-reaction", "garlic-aversion" >>,
       << "extended-tongue", "leathery-wings" >> >>

\* array.includes(x)
includes(array, x) == \E i \in DOMAIN array : array[i] = x

\* a filter with the test inverted: it keeps x alone
withoutOthers(array, x) == SelectSeq(array, LAMBDA id : id = x)

\* array.filter(id => id !== x)
without(array, x) == SelectSeq(array, LAMBDA id : id # x)

\* const tokensCollected = mechanicState.tokensCollected || []
tokensCollectedOf(ms) ==
    IF "tokensCollected" \in DOMAIN ms THEN ms.tokensCollected ELSE <<>>

\* a click that only ever adds the token
newTokensAdding(tokensCollected, tokenId) == Append(tokensCollected, tokenId)

\* the newTokens of handleTokenClick
newTokens(tokensCollected, tokenId) ==
    IF includes(tokensCollected, tokenId)
    THEN without(tokensCollected, tokenId)
    ELSE Append(tokensCollected, tokenId)

\* a validation that wants every combination collected
validateCombinationEvery(tokensCollected) ==
    \A c \in DOMAIN validCombinations :
        \A t \in DOMAIN validCombinations[c] :
            includes(tokensCollected, validCombinations[c][t])

\* validCombinations.some(combo => combo.every(token => tokensCollected.includes(token)))
validateCombination(tokensCollected) ==
    \E c \in DOMAIN validCombinations :
        \A t \in DOMAIN validCombinations[c] :
            includes(tokensCollected, validCombinations[c][t])

\* a click on a token card: Inventory shows the cards for a deduction
\* creature, and onMechanicUpdate is the hook's updateMechanicState
handleTokenClick(tokenId) ==
    /\ selectedCreature # NoCreature
    /\ selectedCreature[1].coreMechanic = "deduction"
    /\ updateMechanicState(
          [tokensCollected |-> newTokens(tokensCollectedOf(mechanicState), tokenId)])

\* The Inventory of the Aswang on the hook's mechanic state.
TokenNext ==
    \/ selectCreature("aswang")
    \/ \E i \in DOMAIN availableTokens : handleTokenClick(availableTokens[i])

TokenSpec == Init /\ [][TokenNext]_vars

\* the array as a set
Collected(array) == {array[i] : i \in DOMAIN array}

\* C19: a click on a token adds it to the collected tokens if it was absent
\* and removes it if it was present, and a second click on the same token
\* gives back the set of tokens collected before the first.
C19_ToggleTwice ==
    [][\A i \in DOMAIN availableTokens :
          LET token == availableTokens[i]
              before == Collected(tokensCollectedOf(mechanicState))
              after == Collected(tokensCollectedOf(mechanicState'))
          IN  handleTokenClick(token) =>
                /\ after = IF token \in before THEN before \ {token}
                           ELSE before \cup {token}
                /\ Collected(newTokens(tokensCollectedOf(mechanicState'), token)) = before]_vars

\* two tokens collected, the later one first in the list of the source
C19_Witness ==
    /\ selectedCreature # NoCreature
    /\ selectedCreature[1].id = "aswang"
    /\ mechanicState.tokensCollected = << "leathery-wings", "reversed-reflection" >>

\* the three valid pairs, as sets
ValidPairs ==
    { {"reversed-reflection", "no-shadow"}, {"salt-reaction", "garlic-aversion"},
      {"extended-tongue", "leathery-wings"} }

\* C20: for every collection of tokens the Aswang is revealed if and only if
\* the collected set contains at least one of the three valid pairs.
C20_RevealedIffPair ==
    validateCombination(tokensCollectedOf(mechanicState)) <=>
        \E pair \in ValidPairs : pair \subseteq Collected(tokensCollectedOf(mechanicState))

\* revealed by the second pair, collected around a token of another pair
C20_Witness ==
    /\ mechanicState.tokensCollected = << "salt-reaction", "no-shadow", "garlic-aversion" >>
    /\ validateCombination(mechanicState.tokensCollected)


\* this step is a click that removes the token from a collection that holds
\* a valid pair the token belongs to
RemovedFromPair(token) ==
    /\ handleTokenClick(token)
    /\ \E pair \in ValidPairs :
          /\ token \in pair
          /\ pair \subseteq Collected(tokensCollectedOf(mechanicState))

\* C21 as claimed: wherever the Aswang is revealed, removing a token that
\* belongs to a satisfied pair makes it not revealed.
C21_Original ==
    [][\A i \in DOMAIN availableTokens :
          RemovedFromPair(availableTokens[i]) =>
              ~validateCombination(tokensCollectedOf(mechanicState'))]_vars

\* C21 amended: the result is computed anew from the tokens collected now:
\* after a token of a satisfied pair is removed the Aswang is revealed if and
\* only if another valid pair is still collected, so the removal reverts the
\* result to not revealed exactly when the pair was the only one satisfied.
C21_NotSticky ==
    [][\A i \in DOMAIN availableTokens :
          RemovedFromPair(availableTokens[i]) =>
              ( validateCombination(tokensCollectedOf(mechanicState')) <=>
                  \E other \in ValidPairs :
                      /\ availableTokens[i] \notin other
                      /\ other \subseteq Collected(tokensCollectedOf(mechanicState)) )]_vars

\* the first pair still collected beside a lone token of the second pair
C21_Witness ==
    /\ mechanicState.tokensCollected = << "reversed-reflection", "no-shadow", "salt-reaction" >>
    /\ validateCombination(mechanicState.tokensCollected)


-----------------------------------------------------------------------------
\* The riddle form of the Inventory (src/src/components/Inventory.jsx).

\* pending 500 ms timers
MaxHintTimers == 2
\* mismatching answers submitted
MaxMisses == 3

\* mechanicState.hintsRevealed || 0
hintsRevealedOf(ms) ==
    IF "hintsRevealed" \in DOMAIN ms THEN ms.hintsRevealed ELSE 0

\* the riddle form is rendered: a riddle creature on a level with riddle data
\* (every level of the embedded Baba Yaga has riddle data)
renderRiddleInterface ==
    /\ selectedCreature # NoCreature
    /\ selectedCreature[1].coreMechanic = "riddle"
    /\ LevelData(selectedCreature, currentLevel) # <<>>

handleSubmitAnswerUngated(matches) ==
    /\ renderRiddleInterface
    /\ IF matches
       THEN UNCHANGED <<hintTimers, misses>>
       ELSE /\ misses < MaxMisses
            /\ misses' = misses + 1
            /\ Len(hintTimers) < MaxHintTimers
            /\ hintTimers' = Append(hintTimers, hintsRevealedOf(mechanicState))
    /\ UNCHANGED showHint
    /\ UNCHANGED <<engineVars, choiceTimers, commitTimers, selectedChoice, choiceLog>>
    /\ UNCHANGED loadVars

\* the form is submitted; matches: the trimmed, lower-cased answer equals the
\* lower-cased key. A miss starts the 500 ms timer only while the hint is hidden.
handleSubmitAnswer(matches) ==
    /\ renderRiddleInterface
    /\ IF matches
       THEN UNCHANGED <<hintTimers, misses>>
       ELSE /\ misses < MaxMisses
            /\ misses' = misses + 1
            /\ IF ~showHint
               THEN /\ Len(hintTimers) < MaxHintTimers
                    /\ hintTimers' = Append(hintTimers, hintsRevealedOf(mechanicState))
               ELSE UNCHANGED hintTimers
    /\ UNCHANGED showHint
    /\ UNCHANGED <<engineVars, choiceTimers, commitTimers, selectedChoice, choiceLog>>
    /\ UNCHANGED loadVars

\* the 500 ms timer fires: setShowHint(true) and
\* onMechanicUpdate({ hintsRevealed: captured + 1 }), which is updateMechanicState
hintTimerFires ==
    /\ hintTimers # <<>>
    /\ showHint' = TRUE
    /\ mechanicState' = Spread(mechanicState, [hintsRevealed |-> Head(hintTimers) + 1])
    /\ hintTimers' = Tail(hintTimers)
    /\ UNCHANGED misses
    /\ UNCHANGED <<gameState, selectedCreature, currentLevel, outcome, consequenceText,
                   transitionFrom, correctAnswers, animationState, storyBubbleIndex>>
    /\ UNCHANGED <<choiceTimers, commitTimers, choiceLog>>
    /\ UNCHANGED loadVars
    /\ UIFollows

\* the values of hintsRevealed the riddle begins with
HintStarts == 0..2

\* Baba Yaga at her first level, as after selectCreature, the reveal and the
\* story, with any hintsRevealed the hook's user has set.
RiddleInit ==
    /\ gameState = "level"
    /\ selectedCreature = FindCreature(fallbackCreatureData, "baba-yaga")
    /\ currentLevel = 0
    /\ outcome = "null"
    /\ consequenceText = ""
    /\ transitionFrom = 0
    /\ correctAnswers = 0
    /\ animationState =
          [entranceComplete |-> TRUE, closeUpComplete |-> TRUE, storyComplete |-> TRUE]
    /\ storyBubbleIndex = 3
    /\ \E start \in HintStarts : mechanicState = [hintsRevealed |-> start]
    /\ choiceTimers = <<>>
    /\ commitTimers = <<>>
    /\ selectedChoice = NoChoice
    /\ choiceLog = FreshLog
    /\ showHint = FALSE
    /\ hintTimers = <<>>
    /\ misses = 0
    /\ gameData = <<fallbackCreatureData>>
    /\ uiConfig = <<fallbackUIConfig>>
    /\ isLoading = FALSE
    /\ creatureLoad = LoadedFallback(fallbackCreatureData)
    /\ uiLoad = LoadedFallback(fallbackUIConfig)

\* The Inventory of Baba Yaga on the hook's state: answers, the hint timers,
\* and the choices that move the session to the next level.
RiddleNext ==
    \/ \E matches \in BOOLEAN : handleSubmitAnswer(matches)
    \/ hintTimerFires
    \/ \E i \in ChoiceIndices : makeChoiceCall(i)
    \/ choiceTimerFires
    \/ (gameState = "levelTransition" /\ completeLevelTransition)

RiddleSpec == RiddleInit /\ [][RiddleNext]_vars

\* C22 as stated: every mismatching answer raises hintsRevealed by exactly one
\* (each starts one increment, and each increment adds one to the value of the
\* moment), a matching answer changes nothing.
C22_Original ==
    [][ /\ misses' = misses + 1 => Len(hintTimers') = Len(hintTimers) + 1
        /\ hintTimerFires =>
              hintsRevealedOf(mechanicState') = hintsRevealedOf(mechanicState) + 1
        /\ handleSubmitAnswer(TRUE) => mechanicState' = mechanicState
      ]_vars

\* C22: in the Inventory's riddle form a mismatching answer submitted while
\* the hint of the current level is hidden starts one 500 ms timer, which sets
\* hintsRevealed to the value it had at the submission plus one and shows the
\* hint; a mismatching answer submitted while the hint is shown, and a
\* matching answer, start no timer and leave hintsRevealed unchanged.
C22_MissWhileHidden ==
    [][ /\ hintTimerFires =>
              /\ hintsRevealedOf(mechanicState') = Head(hintTimers) + 1
              /\ showHint'
        /\ misses' = misses + 1 =>
              /\ mechanicState' = mechanicState
              /\ hintTimers' = IF showHint THEN hintTimers
                               ELSE Append(hintTimers, hintsRevealedOf(mechanicState))
        /\ handleSubmitAnswer(TRUE) => mechanicState' = mechanicState /\ hintTimers' = hintTimers
      ]_vars

\* a second mismatching answer at a level whose hint is already shown has
\* been submitted and has left hintsRevealed where the first one put it
C22_Witness ==
    /\ currentLevel = 0
    /\ showHint
    /\ misses = 2
    /\ hintTimers = <<>>
    /\ mechanicState = [hintsRevealed |-> 1]


-----------------------------------------------------------------------------
\* The story lines (useGameEngine.js, getStoryLines).

\* storyLines[selectedCreature.id] || [], each line named by its position
getStoryLines(sc) ==
    IF sc = NoCreature THEN <<>>
    ELSE CASE sc[1].id \in {"baba-yaga", "banshee"} -> [i \in 1..4 |-> sc[1].id \o "/line" \o ToString(i)]
           [] sc[1].id = "aswang"                   -> [i \in 1..5 |-> sc[1].id \o "/line" \o ToString(i)]
           [] OTHER                                 -> <<>>

\* C23: in phase story, a call of advanceStoryBubble raises the bubble index
\* by one and stays in story while the raised index is below the number of
\* story lines of the selected creature, and moves the phase to level on the
\* call with which the index reaches that number; for every creature of the
\* loaded content.
C23_StoryByLineCount ==
    [][(gameState = "story" /\ selectedCreature # NoCreature /\ advanceStoryBubble) =>
          IF storyBubbleIndex + 1 < Len(getStoryLines(selectedCreature))
          THEN storyBubbleIndex' = storyBubbleIndex + 1 /\ gameState' = "story"
          ELSE gameState' = "level"]_vars


-----------------------------------------------------------------------------
\* The intensity signal (App.jsx, src/unnamed/part_009).

getGameStateIntensityByLevel(gs, level) ==
    CASE level = 0 -> "calm"
      [] level = 1 -> "tense"
      [] level = 2 -> "critical"
      [] OTHER     -> "calm"

\* getGameStateIntensity of the render with phase gs and level index level
getGameStateIntensity(gs, level) ==
    IF gs # "level" THEN "calm"
    ELSE CASE level = 0 -> "calm"
           [] level = 1 -> "tense"
           [] level = 2 -> "critical"
           [] OTHER     -> "calm"

\* C24 as stated: the signal follows the level index alone, in every phase.
C24_Original ==
    /\ currentLevel = 0 => getGameStateIntensity(gameState, currentLevel) = "calm"
    /\ currentLevel = 1 => getGameStateIntensity(gameState, currentLevel) = "tense"
    /\ currentLevel = 2 => getGameStateIntensity(gameState, currentLevel) = "critical"

\* C24: the signal depends on the phase and the level index: it is tense
\* exactly in phase level at level index 1, critical exactly in phase level at
\* level index 2, and calm in every other state, so also during a level
\* transition and at the end whatever the level index is.
C24_IntensityInLevelPhase ==
    LET intensity == getGameStateIntensity(gameState, currentLevel)
    IN  /\ intensity = "tense"    <=> (gameState = "level" /\ currentLevel = 1)
        /\ intensity = "critical" <=> (gameState = "level" /\ currentLevel = 2)
        /\ intensity = "calm"     <=> (gameState # "level" \/ currentLevel \notin {1, 2})

\* the transition from level 1 is shown, and the signal is calm
C24_Witness ==
    /\ gameState = "levelTransition"
    /\ currentLevel = 1
    /\ getGameStateIntensity(gameState, currentLevel) = "calm"


-----------------------------------------------------------------------------
\* The selected creature and the phases that show it.

\* C25: in every reachable state, also after goHome or selectCreature was
\* called while a delayed callback was pending, a phase of characterReveal,
\* story, level, levelTransition or end implies that a creature is selected.
C25_CreatureWhilePlaying ==
    gameState \in {"characterReveal", "story", "level", "levelTransition", "end"}
        => selectedCreature # NoCreature


-----------------------------------------------------------------------------
\* One accepted choice per level.

\* the calmness left when every level up to level has had one incorrect choice
CalmnessFloor(level) ==
    LET d(l) == IF l <= level THEN decreaseAmount(l) ELSE 0
    IN  100 - (d(0) + d(1) + d(2))

\* C26: at most one choice is accepted per level of a session: the
\* correct-count is at most the level index + 1 and at most 3, and the
\* calmness meter of a calmness creature has lost at most one decrement for
\* each level up to the current one.
C26_OneChoicePerLevel ==
    /\ correctAnswers <= currentLevel + 1
    /\ correctAnswers <= 3
    /\ (/\ selectedCreature # NoCreature
        /\ selectedCreature[1].coreMechanic = "calmness"
        /\ DOMAIN mechanicState = {"calmnessLevel"})
          => mechanicState.calmnessLevel >= CalmnessFloor(currentLevel)


-----------------------------------------------------------------------------
\* The order of the levels.

\* C27: within a session the levels are played in order with none skipped:
\* phase level is entered from the story with level index 0 or from a level
\* transition that raises the index, and the level index only ever increases
\* by exactly 1, each increase preceded by exactly one accepted choice at the
\* previous index in the same session.
C27_LevelsInOrder ==
    [][/\ (gameState # "level" /\ gameState' = "level") =>
             \/ gameState = "story" /\ currentLevel' = 0
             \/ gameState = "levelTransition" /\ currentLevel' = currentLevel + 1
       /\ currentLevel' > currentLevel =>
             /\ currentLevel' = currentLevel + 1
             /\ choiceLog[currentLevel] \in {"correct", "incorrect"}]_vars


-----------------------------------------------------------------------------
\* A session played to its end on loaded content.

\* The creature loader and then the application driven by a player who never
\* goes back: the screens' own callbacks, a choice on GameplayScreen, the
\* timers, and Restart on the end card and on the level error screen
\* (part_009 lines 408-418).
PlayNext ==
    \/ \E r \in FetchResults : creatureFetchSettles(r)
    \/ creatureJsonRejects
    \/ \E data \in CreaturePayloads : creatureJsonSettles(data)
    \/ loadAllGameData
    \/ ~isLoading /\ gameState = "intro" /\ startGame
    \/ ~isLoading /\ gameState = "select" /\ \E id \in OfferedIds : selectCreature(id)
    \/ gameState = "characterReveal" /\ completeEntranceAnimation
    \/ gameState = "characterReveal" /\ completeCloseUpAnimation
    \/ gameState = "story" /\ advanceStoryBubble
    \/ \E i \in ChoiceIndices : handleChoice(i)
    \/ commitTimerFires
    \/ choiceTimerFires
    \/ gameState = "levelTransition" /\ completeLevelTransition
    \/ gameState = "end" /\ restartGame
    \/ gameState = "level" /\ LevelData(selectedCreature, currentLevel) = <<>> /\ restartGame

\* every timer fires, every screen completes, and the player chooses whenever
\* choice buttons are shown
PlayFairSpec ==
    /\ LoadedInit
    /\ [][PlayNext]_vars
    /\ WF_vars(gameState = "characterReveal" /\ completeCloseUpAnimation)
    /\ WF_vars(gameState = "story" /\ advanceStoryBubble)
    /\ WF_vars(\E i \in ChoiceIndices : handleChoice(i))
    /\ WF_vars(commitTimerFires)
    /\ WF_vars(choiceTimerFires)
    /\ WF_vars(gameState = "levelTransition" /\ completeLevelTransition)

\* C28: under fairness every session started by selectCreature reaches phase
\* end with outcome victory or defeat, on whatever content the loader returned.
C28_SessionEnds ==
    [](gameState = "characterReveal" =>
          <>(gameState = "end" /\ outcome \in {"victory", "defeat"}))


-----------------------------------------------------------------------------
\* The outcome and the end phase.

\* C29: in every reachable state the outcome is victory or defeat if and only
\* if the phase is end; in every other phase it is null.
C29_OutcomeIffEnd ==
    /\ outcome \in {"victory", "defeat", "null"}
    /\ outcome \in {"victory", "defeat"} <=> gameState = "end"


-----------------------------------------------------------------------------
\* The level transition shown.

\* C30: whenever the phase is levelTransition, the recorded from-level equals
\* the current level index and is 0 or 1, so the transition shown leads to the
\* level completeLevelTransition then enters.
C30_TransitionFromCurrent ==
    gameState = "levelTransition" =>
        /\ transitionFrom = currentLevel
        /\ transitionFrom \in {0, 1}

====
